---- MODULE Spec2Model ----
(***************************************************************************)
(* Model of the Stripe webhook pipeline of src/app.py: stripe_webhook      *)
(* (signature check, field extraction, payment-method lookup, customer     *)
(* email check) and send_email (rendering and SMTP hand-off).              *)
(*                                                                         *)
(* Python values are tagged records: None, strings, ints, floats with two  *)
(* decimals and dicts (TLA+ functions from keys to values), so that        *)
(* dict.get(key, default), hasattr, truthiness and the exceptions raised   *)
(* on None can be computed the way the interpreter computes them.          *)
(***************************************************************************)
EXTENDS Integers, Sequences, FiniteSets, TLC

\* Number of webhook deliveries the processor makes in one behaviour.
MaxDeliveries == 2

(***************************************************************************)
(* Python values                                                           *)
(***************************************************************************)
None == [ty |-> "none"]
Unset == [ty |-> "unset"]
PyStr(s) == [ty |-> "str", v |-> s]
\* A string kept as its characters (used where the code concatenates).
Chars(cs) == [ty |-> "str", chars |-> cs]
PyInt(n) == [ty |-> "int", v |-> n]
\* The float whole + frac/100.
PyFloat(whole, frac) == [ty |-> "float", whole |-> whole, frac |-> frac]
PyDict(f) == [ty |-> "dict", d |-> f]
EmptyDict == PyDict(<<>>)

\* Python truthiness (bool(x)).
Truthy(x) ==
    CASE x.ty = "none" -> FALSE
      [] x.ty = "str" -> IF "chars" \in DOMAIN x THEN x.chars # <<>> ELSE x.v # ""
      [] x.ty = "int" -> x.v # 0
      [] x.ty = "float" -> x.whole # 0 \/ x.frac # 0
      [] x.ty = "dict" -> DOMAIN x.d # {}
      [] OTHER -> TRUE

\* d.get(k, default) on a mapping d (a TLA+ function): the default is used
\* only when the key is absent; a key present with value None yields None.
Get(d, k, default) == IF k \in DOMAIN d THEN d[k] ELSE default

\* hasattr(obj, k) on a StripeObject: true exactly when the key is present.
HasAttr(obj, k) == obj.ty = "dict" /\ k \in DOMAIN obj.d

(***************************************************************************)
(* The webhook's inputs                                                    *)
(***************************************************************************)
Completed == "checkout.session.completed"
EventTypes == {Completed, "payment_intent.succeeded", "charge.refunded"}

EndpointSecret == "whsec_live"
WrongSecret == "whsec_other"

AmountTotals == {None, PyInt(5250), PyInt(99)}
Metadatas ==
    { None,
      PyDict([game |-> PyStr("Fire Kirin"), username |-> PyStr("j_doe"),
            amount |-> PyStr("50"), convenience_fee |-> PyStr("2.5")]),
      PyDict([amount |-> PyStr("abc"), convenience_fee |-> PyStr("x")]) }
PaymentIntentIds == {None, PyStr("pi_1")}
CustomerDetails ==
    { None, EmptyDict, PyDict([email |-> None]), PyDict([email |-> PyStr("")]),
      PyDict([email |-> PyStr("a@b.c")]) }
Createds == {PyInt(1700000000)}

\* A JSON object with some keys absent: each key is either left out or
\* bound to one of its values.
Optional(k, vals) == {<<>>} \cup {k :> v : v \in vals}

Sessions ==
    { a @@ m @@ p @@ c @@ t :
        a \in Optional("amount_total", AmountTotals),
        m \in Optional("metadata", Metadatas),
        p \in Optional("payment_intent", PaymentIntentIds),
        c \in Optional("customer_details", CustomerDetails),
        t \in Optional("created", Createds) }

PlainSession ==
    [amount_total |-> PyInt(5250), metadata |-> EmptyDict, payment_intent |-> PyStr("pi_1"),
     customer_details |-> PyDict([email |-> PyStr("a@b.c")]), created |-> PyInt(1700000000)]

Envelope(type, session) == [ty |-> "event", type |-> type, object |-> session]
\* A body that is not JSON.
NotJson == [ty |-> "garbage"]

\* The keyed hash of the signed payload "t.payload" (collision free).
Sign(secret, t, payload) == [key |-> secret, t |-> t, payload |-> payload]
SigHeader(t, mac) == [ty |-> "sig", t |-> t, v1 |-> mac]

GoodRequest(payload) ==
    [payload |-> payload, sig_header |-> SigHeader("fresh", Sign(EndpointSecret, "fresh", payload))]

\* Requests that the processor signed: any event type, any session.
SignedRequests ==
    { GoodRequest(Envelope(Completed, s)) : s \in Sessions }
    \cup { GoodRequest(Envelope(k, PlainSession)) : k \in EventTypes \ {Completed} }
    \cup { GoodRequest(Envelope(k, <<>>)) : k \in EventTypes \ {Completed} }

\* Requests that must not pass construct_event.
ForgedRequests ==
    LET body == Envelope(Completed, PlainSession)
        other == Envelope(Completed, [PlainSession EXCEPT !.amount_total = PyInt(99)])
    IN  { [payload |-> body, sig_header |-> SigHeader("fresh", Sign(EndpointSecret, "fresh", other))],
          [payload |-> body, sig_header |-> SigHeader("fresh", Sign(WrongSecret, "fresh", body))],
          [payload |-> body, sig_header |-> SigHeader("stale", Sign(EndpointSecret, "stale", body))],
          [payload |-> body, sig_header |-> None],
          [payload |-> body, sig_header |-> PyStr("garbage")],
          [payload |-> NotJson, sig_header |-> None],
          [payload |-> NotJson, sig_header |-> SigHeader("fresh", Sign(WrongSecret, "fresh", NotJson))],
          GoodRequest(NotJson) }

Requests == SignedRequests \cup ForgedRequests

(***************************************************************************)
(* stripe.Webhook.construct_event(payload, sig_header, endpoint_secret)    *)
(***************************************************************************)
SignatureOk(payload, sig_header, secret) ==
    /\ sig_header.ty = "sig"
    /\ sig_header.t = "fresh"
    /\ sig_header.v1 = Sign(secret, sig_header.t, payload)

\* The header is verified against the raw body first, then the body is parsed.
ConstructEvent(payload, sig_header, secret) ==
    IF ~SignatureOk(payload, sig_header, secret)
        THEN [raised |-> "SignatureVerificationError"]
    ELSE IF payload.ty # "event"
        THEN [raised |-> "ValueError"]
    ELSE [raised |-> "no", event |-> payload]

\* The outer handlers without the one for SignatureVerificationError: a bad
\* signature falls through to the generic handler.
ExceptResponseNoSignatureHandler(exc) ==
    CASE exc = "ValueError" -> [status |-> 400, success |-> FALSE, error |-> "Invalid payload"]
      [] OTHER -> [status |-> 500, success |-> FALSE, error |-> "Webhook error"]

\* The outer handlers of stripe_webhook: the response for an exception class.
ExceptResponse(exc) ==
    CASE exc = "ValueError" -> [status |-> 400, success |-> FALSE, error |-> "Invalid payload"]
      [] exc = "SignatureVerificationError" ->
            [status |-> 400, success |-> FALSE, error |-> "Invalid signature"]
      [] OTHER -> [status |-> 500, success |-> FALSE, error |-> "Webhook error"]

SuccessResponse == [status |-> 200, success |-> TRUE, error |-> "none"]
MissingEmailResponse == [status |-> 400, success |-> FALSE, error |-> "Missing customer email"]

(***************************************************************************)
(* Field extraction (stripe_webhook, the lines after the type test)        *)
(***************************************************************************)
\* x / 100 on an int of cents; None / 100 raises TypeError.
DivideBy100(x) == PyFloat(x.v \div 100, x.v % 100)

\* The type test written against the wrong set of event types.
IsCompletedOrSucceeded(event) == event.type \in {Completed, "payment_intent.succeeded"}

IsCompleted(event) == event.type = Completed

\* The locals after the extraction block, or the exception it raised.
Extract(session) ==
    LET total == Get(session, "amount_total", PyInt(0))
        md == Get(session, "metadata", EmptyDict)
    IN  IF total.ty # "int" THEN [raised |-> "TypeError"]
        ELSE IF md.ty # "dict" THEN [raised |-> "AttributeError"]
        ELSE [raised |-> "no",
              amount_received |-> DivideBy100(total),
              metadata |-> md,
              game |-> Get(md.d, "game", PyStr("Unknown Game")),
              username |-> Get(md.d, "username", PyStr("Unknown User")),
              convenience_fee |-> Get(md.d, "convenience_fee", PyFloat(0, 0)),
              amount |-> Get(md.d, "amount", PyFloat(0, 0)),
              payment_intent_id |-> Get(session, "payment_intent", PyStr("Unknown Payment ID"))]

(***************************************************************************)
(* stripe.PaymentIntent.retrieve and the payment-method block              *)
(***************************************************************************)
PyList(items) == [ty |-> "list", items |-> items]

Card(brand, last4) == PyDict([brand |-> brand, last4 |-> last4])
CashApp(cashtag) == PyDict([cashtag |-> cashtag])

\* payment_method_details objects (also the shape of an attached payment method).
MethodDetails ==
    { None,
      EmptyDict,
      PyDict([type |-> None]),
      PyDict([type |-> PyStr("us_bank_account")]),
      PyDict([type |-> PyStr("apple_pay")]),
      PyDict([type |-> PyStr("google_pay")]),
      PyDict([type |-> PyStr("card")]),
      PyDict([type |-> PyStr("card"), card |-> None]),
      PyDict([type |-> PyStr("card"), card |-> EmptyDict]),
      PyDict([type |-> PyStr("card"), card |-> Card(PyStr("Visa"), PyStr("4242"))]),
      PyDict([type |-> PyStr("card"), card |-> Card(PyStr("jcb"), PyStr("0005"))]),
      PyDict([type |-> PyStr("card"), card |-> Card(None, PyStr("4242"))]),
      PyDict([type |-> PyStr("card"), card |-> Card(PyStr("visa"), None)]),
      PyDict([type |-> PyStr("cashapp")]),
      PyDict([type |-> PyStr("cashapp"), cashapp |-> None]),
      PyDict([type |-> PyStr("cashapp"), cashapp |-> EmptyDict]),
      PyDict([type |-> PyStr("cashapp"), cashapp |-> CashApp(None)]),
      PyDict([type |-> PyStr("cashapp"), cashapp |-> CashApp(Chars(<<"$", "j", "d">>))]),
      PyDict([type |-> PyStr("cashapp"), cashapp |-> CashApp(Chars(<<"j", "d">>))]) }

\* A payment intent whose first charge carries the given details.
WithCharge(pmd) ==
    PyDict([id |-> PyStr("pi_1"),
            charges |-> PyDict([data |-> PyList(<<PyDict([payment_method_details |-> pmd])>>)])])

\* A payment intent that carries the details on its attached payment method.
WithPaymentMethod(pm) == PyDict([id |-> PyStr("pi_1"), payment_method |-> pm])

VisaDetails == PyDict([type |-> PyStr("card"), card |-> Card(PyStr("visa"), PyStr("4242"))])
CashtagDetails == PyDict([type |-> PyStr("cashapp"), cashapp |-> CashApp(Chars(<<"j", "d">>))])

\* What PaymentIntent.retrieve may do: raise, or return one of these objects.
LookupOutcomes ==
    { [raised |-> "APIConnectionError"] }
    \cup { [raised |-> "no", payment_intent |-> pi] :
            pi \in { WithCharge(pmd) : pmd \in MethodDetails }
                \cup { PyDict([id |-> PyStr("pi_1")]),
                       PyDict([id |-> PyStr("pi_1"), charges |-> None]),
                       PyDict([id |-> PyStr("pi_1"), charges |-> EmptyDict]),
                       PyDict([id |-> PyStr("pi_1"), charges |-> PyDict([data |-> None])]),
                       PyDict([id |-> PyStr("pi_1"), charges |-> PyDict([data |-> PyList(<<>>)])]),
                       PyDict([id |-> PyStr("pi_1"),
                               charges |-> PyDict([data |-> PyList(<<EmptyDict>>)])]),
                       WithPaymentMethod(VisaDetails),
                       WithPaymentMethod(CashtagDetails),
                       PyDict([id |-> PyStr("pi_1"), payment_method |-> VisaDetails,
                               charges |-> WithCharge(CashtagDetails).d.charges]) } }

\* str.lower() on the brands the lookup may return.
Lower(s) == CASE s = "Visa" -> "visa" [] OTHER -> s

\* The four locals before the lookup.
NoMethod ==
    [payment_method_type |-> PyStr("Unknown"), card_last4 |-> None, card_brand |-> None,
     cashapp_cashtag |-> None]

\* The guard of the lookup: a truthy id other than the default.
ShouldLookup(payment_intent_id) ==
    Truthy(payment_intent_id) /\ payment_intent_id # PyStr("Unknown Payment ID")

\* The card branch: last4 is assigned, then brand.lower() may raise on None.
CardLocals(m, card_details) ==
    IF card_details.ty # "dict" THEN m
    ELSE LET last4 == Get(card_details.d, "last4", PyStr(""))
             brand == Get(card_details.d, "brand", PyStr(""))
         IN  IF brand.ty # "str" THEN [m EXCEPT !.card_last4 = last4]
             ELSE [m EXCEPT !.card_last4 = last4, !.card_brand = PyStr(Lower(brand.v))]

\* The Cash App branch.
CashAppLocals(m, cashapp_details) ==
    IF cashapp_details.ty # "dict" THEN m
    ELSE [m EXCEPT !.cashapp_cashtag = Get(cashapp_details.d, "cashtag", Chars(<<>>))]

\* The locals after reading payment_method_details of the latest charge; an
\* exception raised part way leaves the assignments made before it.
DetailsLocals(pmd) ==
    IF pmd.ty # "dict" THEN NoMethod
    ELSE LET type == Get(pmd.d, "type", PyStr("Unknown"))
             m == [NoMethod EXCEPT !.payment_method_type = type]
         IN  IF type = PyStr("card") /\ HasAttr(pmd, "card") THEN CardLocals(m, pmd.d.card)
             ELSE IF type = PyStr("cashapp") /\ HasAttr(pmd, "cashapp")
                 THEN CashAppLocals(m, pmd.d.cashapp)
             ELSE m

\* The locals after the try block, given what retrieve did.
ResolveMethod(outcome) ==
    IF outcome.raised # "no" THEN NoMethod
    ELSE LET pi == outcome.payment_intent
         IN  IF ~(Truthy(pi) /\ HasAttr(pi, "charges") /\ HasAttr(pi.d.charges, "data"))
                 THEN NoMethod
             ELSE LET data == pi.d.charges.d.data
                  IN  IF data.ty # "list" THEN NoMethod
                      ELSE IF Len(data.items) = 0 THEN NoMethod
                      ELSE IF ~HasAttr(data.items[1], "payment_method_details") THEN NoMethod
                      ELSE DetailsLocals(data.items[1].d.payment_method_details)

\* The inner handler of the lookup: `except Exception` catches every class.
LookupCaught(exc) == TRUE

(***************************************************************************)
(* The customer email and the payment time                                 *)
(***************************************************************************)
\* session.get('customer_details', {}).get('email', None); .get on None raises.
CustomerEmail(session) ==
    LET cd == Get(session, "customer_details", EmptyDict)
    IN  IF cd.ty # "dict" THEN [raised |-> "AttributeError"]
        ELSE [raised |-> "no", customer_email |-> Get(cd.d, "email", None)]

\* The creation instant shown in Central Time with the given strftime format.
CentralTime(session, fmt) ==
    [epoch |-> Get(session, "created", PyInt(0)).v, tz |-> "America/Chicago", fmt |-> fmt]

(***************************************************************************)
(* send_email: rendering                                                   *)
(***************************************************************************)
\* str.upper() and str.replace('_', ' ').title() on the values in use.
Upper(s) == CASE s = "jcb" -> "JCB" [] s = "visa" -> "VISA" [] OTHER -> s
Title(s) ==
    CASE s = "card" -> "Card"
      [] s = "cashapp" -> "Cashapp"
      [] s = "us_bank_account" -> "Us Bank Account"
      [] OTHER -> s

LogoBrands == {"visa", "mastercard", "amex", "discover"}

\* The cashtag as the notification shows it: the logo, then "$" and the tag.
CashtagHtml(cashapp_cashtag) == <<"<img cashapp.svg>", " ", "$">> \o cashapp_cashtag.chars

\* payment_method_html as a list of text pieces, or the exception raised.
PaymentMethodHtml(payment_method_type, card_brand, card_last4, cashapp_cashtag) ==
    IF payment_method_type = PyStr("card") /\ Truthy(card_brand) /\ Truthy(card_last4)
        THEN [raised |-> "no",
              html |-> IF card_brand.v \in LogoBrands
                          THEN <<"<img>", card_brand.v, " .... ", card_last4.v>>
                          ELSE <<"<span>", Upper(card_brand.v), " .... ", card_last4.v>>]
    ELSE IF payment_method_type = PyStr("cashapp") /\ Truthy(cashapp_cashtag)
        THEN [raised |-> "no", html |-> CashtagHtml(cashapp_cashtag)]
    ELSE IF payment_method_type = PyStr("apple_pay")
        THEN [raised |-> "no", html |-> <<"<img applepay.svg>", " ", "Apple Pay">>]
    ELSE IF payment_method_type = PyStr("google_pay")
        THEN [raised |-> "no", html |-> <<"<img googlepay.svg>", " ", "Google Pay">>]
    ELSE IF payment_method_type.ty # "str" THEN [raised |-> "AttributeError"]
    ELSE [raised |-> "no", html |-> <<Title(payment_method_type.v)>>]

\* str(x) inside an f-string: a float prints its shortest decimals.
Format(x) ==
    CASE x.ty = "float" ->
            [text |-> "float", int |-> x.whole,
             decimals |-> IF x.frac % 10 = 0 THEN <<x.frac \div 10>>
                          ELSE <<x.frac \div 10, x.frac % 10>>]
      [] x.ty = "none" -> [text |-> "None"]
      [] OTHER -> [text |-> "str", v |-> x.v]

\* The message send_email builds, or the exception raised while building it.
Render(a) ==
    IF a.payment_id.ty # "str" THEN [raised |-> "TypeError"]
    ELSE LET pm == PaymentMethodHtml(a.payment_method_type, a.card_brand, a.card_last4,
                                     a.cashapp_cashtag)
         IN  IF pm.raised # "no" THEN [raised |-> pm.raised]
             ELSE [raised |-> "no",
                   msg |-> [to |-> "fkgv.load1@gmail.com",
                            from |-> "fkgv.load2@gmail.com",
                            subject |-> <<"New Payment Notification - ", a.payment_id.v>>,
                            payment_id |-> Format(a.payment_id),
                            payment_date |-> a.payment_date,
                            payment_time |-> a.payment_time,
                            customer |-> Format(a.customer_email),
                            game |-> Format(a.game),
                            username |-> Format(a.username),
                            deposit_amount |-> Format(a.amount),
                            convenience_fee |-> Format(a.convenience_fee),
                            total_amount |-> Format(a.amount_received),
                            payment_method |-> pm.html]]

\* What the SMTP session may do.
SmtpOutcomes == {"sent", "connect failed", "login failed", "sendmail failed"}

\* No SMTP session was opened in this call.
NotStarted == "not started"

\* A handler that names smtplib.SMTPException: a refused connection (an
\* OSError) is not caught.
SmtpCaughtOnlySmtpException(exc) == exc # "connect failed"

\* The handler around the SMTP session: `except Exception` catches every class.
SmtpCaught(exc) == TRUE

(***************************************************************************)
(* State                                                                   *)
(***************************************************************************)
VARIABLES
    pc,                 \* where the handler of the current request stands
    deliveries,         \* webhook requests received so far
    request,            \* the current request: payload and Stripe-Signature
    event,              \* what construct_event returned
    session,            \* event['data']['object']
    amount_received, game, username, convenience_fee, amount, payment_intent_id,
    payment_method_type, card_brand, card_last4, cashapp_cashtag,
    lookup,             \* what PaymentIntent.retrieve did in this request
    customer_email, payment_time, payment_date,
    msg,                \* the message send_email built
    smtp,               \* what the SMTP session did
    response,           \* the response returned to the processor
    trace,              \* the calls made while handling the current request
    renders,            \* messages built over all requests
    outbox              \* subjects of the messages the mail server accepted

extracted == <<session, amount_received, game, username, convenience_fee, amount,
               payment_intent_id>>
method == <<payment_method_type, card_brand, card_last4, cashapp_cashtag, lookup>>
notice == <<customer_email, payment_time, payment_date>>
mail == <<msg, smtp, renders, outbox>>
vars == <<pc, deliveries, request, event, extracted, method, notice, mail, response, trace>>

Count(seq, x) == Cardinality({i \in DOMAIN seq : seq[i] = x})

Init ==
    /\ pc = "idle"
    /\ deliveries = 0
    /\ request = Unset
    /\ event = Unset
    /\ session = Unset
    /\ amount_received = Unset /\ game = Unset /\ username = Unset
    /\ convenience_fee = Unset /\ amount = Unset /\ payment_intent_id = Unset
    /\ payment_method_type = Unset /\ card_brand = Unset /\ card_last4 = Unset
    /\ cashapp_cashtag = Unset /\ lookup = Unset
    /\ customer_email = Unset /\ payment_time = Unset /\ payment_date = Unset
    /\ msg = Unset /\ smtp = NotStarted
    /\ response = Unset
    /\ trace = <<>>
    /\ renders = 0
    /\ outbox = <<>>

\* Every local of a fresh call is unbound.
FreshLocals ==
    /\ event' = Unset
    /\ session' = Unset
    /\ amount_received' = Unset /\ game' = Unset /\ username' = Unset
    /\ convenience_fee' = Unset /\ amount' = Unset /\ payment_intent_id' = Unset
    /\ payment_method_type' = Unset /\ card_brand' = Unset /\ card_last4' = Unset
    /\ cashapp_cashtag' = Unset /\ lookup' = Unset
    /\ customer_email' = Unset /\ payment_time' = Unset /\ payment_date' = Unset
    /\ msg' = Unset /\ smtp' = NotStarted

\* The handler returns `resp`.
Return(resp) == response' = resp /\ pc' = "done"

(***************************************************************************)
(* stripe_webhook, one action per stretch between two external calls       *)
(***************************************************************************)
\* POST /webhook arrives; the call starts with its own, unbound locals.
Receive(r) ==
    /\ pc = "idle"
    /\ deliveries < MaxDeliveries
    /\ deliveries' = deliveries + 1
    /\ request' = r
    /\ pc' = "construct_event"
    /\ UNCHANGED <<event, extracted, method, notice, mail, response, trace>>

\* The response has gone out: the call is over and its locals are gone.
Finish ==
    /\ pc = "done"
    /\ pc' = "idle"
    /\ request' = Unset
    /\ FreshLocals
    /\ response' = Unset
    /\ trace' = <<>>
    /\ UNCHANGED <<deliveries, renders, outbox>>

\* construct_event and the two handlers for what it raises.
Verify ==
    /\ pc = "construct_event"
    /\ trace' = Append(trace, "construct_event")
    /\ LET r == ConstructEvent(request.payload, request.sig_header, EndpointSecret)
       IN  IF r.raised # "no"
               THEN Return(ExceptResponse(r.raised)) /\ event' = event
               ELSE event' = r.event /\ pc' = "extract" /\ response' = response
    /\ UNCHANGED <<deliveries, request, extracted, method, notice, mail>>

\* An event of another type is acknowledged without further work.
Skip ==
    /\ pc = "extract"
    /\ ~IsCompleted(event)
    /\ Return(SuccessResponse)
    /\ UNCHANGED <<deliveries, request, event, extracted, method, notice, mail, trace>>

\* The extraction block of a completed checkout session.
ExtractFields ==
    /\ pc = "extract"
    /\ IsCompleted(event)
    /\ trace' = Append(trace, "extract")
    /\ session' = event.object
    /\ LET x == Extract(event.object)
       IN  IF x.raised # "no"
               THEN /\ Return(ExceptResponse(x.raised))
                    /\ UNCHANGED <<amount_received, game, username, convenience_fee, amount,
                                   payment_intent_id>>
               ELSE /\ amount_received' = x.amount_received
                    /\ game' = x.game
                    /\ username' = x.username
                    /\ convenience_fee' = x.convenience_fee
                    /\ amount' = x.amount
                    /\ payment_intent_id' = x.payment_intent_id
                    /\ pc' = "resolve"
                    /\ response' = response
    /\ UNCHANGED <<deliveries, request, event, method, notice, mail>>

SetMethod(m) ==
    /\ payment_method_type' = m.payment_method_type
    /\ card_brand' = m.card_brand
    /\ card_last4' = m.card_last4
    /\ cashapp_cashtag' = m.cashapp_cashtag

\* The id is missing, None or the default: no lookup is made.
NoLookup ==
    /\ pc = "resolve"
    /\ ~ShouldLookup(payment_intent_id)
    /\ SetMethod(NoMethod)
    /\ pc' = "email"
    /\ UNCHANGED <<deliveries, request, event, extracted, lookup, notice, mail, response, trace>>

\* PaymentIntent.retrieve and the reading of its answer.
Lookup(outcome) ==
    /\ pc = "resolve"
    /\ ShouldLookup(payment_intent_id)
    /\ trace' = Append(trace, "retrieve")
    /\ lookup' = outcome
    /\ IF outcome.raised = "no" \/ LookupCaught(outcome.raised)
           THEN SetMethod(ResolveMethod(outcome)) /\ pc' = "email" /\ response' = response
           ELSE SetMethod(NoMethod) /\ Return(ExceptResponse(outcome.raised))
    /\ UNCHANGED <<deliveries, request, event, extracted, notice, mail>>

\* The customer email test and the formatting of the payment time.
CheckEmail ==
    /\ pc = "email"
    /\ LET e == CustomerEmail(session)
       IN  IF e.raised # "no"
               THEN Return(ExceptResponse(e.raised)) /\ UNCHANGED notice
           ELSE IF ~Truthy(e.customer_email)
               THEN Return(MissingEmailResponse) /\ UNCHANGED notice
           ELSE /\ customer_email' = e.customer_email
                /\ payment_time' = CentralTime(session, "%I:%M %p %Z")
                /\ payment_date' = CentralTime(session, "%B %d, %Y")
                /\ pc' = "send_email"
                /\ response' = response
    /\ UNCHANGED <<deliveries, request, event, extracted, method, mail, trace>>

\* The arguments of the call of send_email.
SendEmailArgs ==
    [customer_email |-> customer_email, amount_received |-> amount_received, game |-> game,
     username |-> username, amount |-> amount, convenience_fee |-> convenience_fee,
     payment_time |-> payment_time, payment_date |-> payment_date,
     payment_id |-> payment_intent_id, payment_method_type |-> payment_method_type,
     card_brand |-> card_brand, card_last4 |-> card_last4, cashapp_cashtag |-> cashapp_cashtag]

\* send_email is called and builds the message; an exception raised while
\* building it reaches the outer handler of stripe_webhook.
SendEmail ==
    /\ pc = "send_email"
    /\ trace' = Append(trace, "send_email")
    /\ LET r == Render(SendEmailArgs)
       IN  IF r.raised # "no"
               THEN Return(ExceptResponse(r.raised)) /\ UNCHANGED <<msg, renders>>
               ELSE msg' = r.msg /\ renders' = renders + 1 /\ pc' = "smtp" /\ response' = response
    /\ UNCHANGED <<deliveries, request, event, extracted, method, notice, smtp, outbox>>

\* The SMTP session of send_email, then the return of stripe_webhook.
Smtp(outcome) ==
    /\ pc = "smtp"
    /\ trace' = Append(trace, "smtp")
    /\ smtp' = outcome
    /\ outbox' = IF outcome = "sent" THEN Append(outbox, msg.subject) ELSE outbox
    /\ IF outcome = "sent" \/ SmtpCaught(outcome)
           THEN Return(SuccessResponse)
           ELSE Return(ExceptResponse(outcome))
    /\ UNCHANGED <<deliveries, request, event, extracted, method, notice, msg, renders>>

Next ==
    \/ \E r \in Requests : Receive(r)
    \/ Verify
    \/ Skip
    \/ ExtractFields
    \/ NoLookup
    \/ \E outcome \in LookupOutcomes : Lookup(outcome)
    \/ CheckEmail
    \/ SendEmail
    \/ \E outcome \in SmtpOutcomes : Smtp(outcome)
    \/ Finish

Spec == Init /\ [][Next]_vars

(***************************************************************************)
(* Properties                                                              *)
(***************************************************************************)
Done == pc = "done"
Called(f) == Count(trace, f)

\* The request in hand was signed by the processor with the endpoint secret.
Signed == request \in SignedRequests
SignedCompleted == Signed /\ request.payload.type = Completed
SignedOther == Signed /\ request.payload.type # Completed

\* The session carries a customer email.
HasCustomerEmail(s) ==
    /\ "customer_details" \in DOMAIN s
    /\ s.customer_details.ty = "dict"
    /\ "email" \in DOMAIN s.customer_details.d
    /\ s.customer_details.d.email.ty = "str"
    /\ s.customer_details.d.email.v # ""

\* amount_total is an integer or absent, metadata a mapping or absent.
WellFormedAmounts(s) ==
    /\ "amount_total" \in DOMAIN s => s.amount_total.ty = "int"
    /\ "metadata" \in DOMAIN s => s.metadata.ty = "dict"

\* The payment id is absent or null.
NoPaymentId(s) == "payment_intent" \in DOMAIN s => s.payment_intent = None

C2_NotifiesOnceAndSucceeds ==
    ( /\ Done
      /\ SignedCompleted
      /\ HasCustomerEmail(request.payload.object)
      /\ WellFormedAmounts(request.payload.object)
      /\ NoPaymentId(request.payload.object) )
    => /\ Called("send_email") = 1
       /\ amount_received.whole * 100 + amount_received.frac
            = Get(request.payload.object, "amount_total", PyInt(0)).v
       /\ response = SuccessResponse

\* C3: a signed event of any other type is acknowledged with 200 and
\* success=true as a no-op: no extraction, no lookup, no send_email.
C3_OtherKindsSkipped ==
    SignedOther =>
        /\ Called("extract") = 0 /\ Called("retrieve") = 0 /\ Called("send_email") = 0
        /\ session = Unset /\ lookup = Unset /\ msg = Unset
        /\ pc \in {"construct_event", "extract", "done"}
        /\ Done => response = SuccessResponse

\* An event of another type has been acknowledged.
C3_Witness ==
    /\ Done
    /\ SignedOther
    /\ request.payload.type = "payment_intent.succeeded"
    /\ request.payload.object = PlainSession
    /\ response.status = 200

\* C4: a signed checkout.session.completed event on which no customer email
\* can be found (customer_details absent or null, email absent, null or
\* empty) is answered 400 and send_email is never called.
C4_MissingEmailRejected ==
    ( /\ Done
      /\ SignedCompleted
      /\ WellFormedAmounts(request.payload.object)
      /\ ~HasCustomerEmail(request.payload.object) )
    => /\ response.status = 400
       /\ Called("send_email") = 0

\* C5: whatever PaymentIntent.retrieve does (raises, fields missing or null,
\* another shape, an unknown method type), the handler still calls send_email,
\* the message is built and the answer is 200.
C5_LookupNeverFails ==
    ( /\ Done
      /\ SignedCompleted
      /\ HasCustomerEmail(request.payload.object)
      /\ Called("retrieve") = 1 )
    => /\ Called("send_email") = 1
       /\ msg # Unset
       /\ response = SuccessResponse

\* C6: a failure of the SMTP session is caught in send_email, the session is
\* not tried again, and the answer stays 200; every call that ends skipped,
\* sent or with a failed delivery is answered 200.
C6_DeliveryFailureAcknowledged ==
    /\ Called("smtp") <= 1
    /\ (Done /\ smtp # NotStarted) => Called("smtp") = 1 /\ response = SuccessResponse
    /\ (Done /\ SignedOther) => response = SuccessResponse

\* The login to the mail server failed and the call was answered 200.
C6_Witness ==
    /\ Done
    /\ smtp = "login failed"
    /\ response = SuccessResponse

\* Metadata texts that parse as a number.
NumericText == {"50", "2.5"}

\* The metadata of the session binds k to a text that is no number.
Malformed(s, k) ==
    /\ "metadata" \in DOMAIN s
    /\ s.metadata.ty = "dict"
    /\ k \in DOMAIN s.metadata.d
    /\ s.metadata.d[k].ty = "str"
    /\ s.metadata.d[k].v \notin NumericText

\* C7: when metadata 'amount' or 'convenience_fee' is a text that does not
\* parse as a number, send_email is handed the default 0 in its place, not
\* the raw text.
C7_MalformedMetadataDefaultsToZero ==
    (SignedCompleted /\ Called("send_email") = 1) =>
        /\ Malformed(request.payload.object, "amount") => SendEmailArgs.amount = PyFloat(0, 0)
        /\ Malformed(request.payload.object, "convenience_fee")
              => SendEmailArgs.convenience_fee = PyFloat(0, 0)

\* C8: a cashtag stored as '$jd' is shown as exactly '$jd', one stored as
\* 'jd' is shown the same way, and rendering again gives the same text and
\* leaves the stored cashtag as it was.
C8_CashtagRoundTrip ==
    ( /\ msg # Unset
      /\ payment_method_type = PyStr("cashapp")
      /\ cashapp_cashtag \in {Chars(<<"$", "j", "d">>), Chars(<<"j", "d">>)} )
    => /\ msg.payment_method = <<"<img cashapp.svg>", " ", "$", "j", "d">>
       /\ Render(SendEmailArgs).msg = msg

\* C9: the resolver reads the payment method attached to the payment intent
\* first and the charge record only when none is attached: an answer that
\* carries an attached payment method resolves to that method's type.
C9_AttachedMethodResolved ==
    ( /\ pc \in {"email", "send_email", "smtp", "done"}
      /\ lookup # Unset
      /\ lookup.raised = "no"
      /\ HasAttr(lookup.payment_intent, "payment_method") )
    => payment_method_type = lookup.payment_intent.d.payment_method.d.type

\* C10: PaymentIntent.retrieve is called only after extraction has
\* succeeded: never before the fields are extracted, and never in a call
\* that ends rejected for a missing customer email or skipped.
C10_LookupOnlyAfterExtraction ==
    /\ Called("retrieve") > 0 => Called("extract") > 0
    /\ (Done /\ (response = MissingEmailResponse \/ SignedOther)) => Called("retrieve") = 0


(***************************************************************************)
(* Redelivery: the processor delivers one event again and again            *)
(***************************************************************************)
\* Signed checkout.session.completed events with payment id 'pi_1', a
\* customer email, and amounts that extract.
RedeliveredRequests ==
    { GoodRequest(Envelope(Completed, s)) :
        s \in { t \in Sessions : /\ HasCustomerEmail(t)
                                 /\ WellFormedAmounts(t)
                                 /\ "payment_intent" \in DOMAIN t
                                 /\ t.payment_intent = PyStr("pi_1") } }

\* The processor posts r; once it has posted an event it posts that one again.
Deliver(r) ==
    /\ request \in {Unset, r}
    /\ Receive(r)

\* The response has gone out and the locals are gone; the processor keeps
\* the event for its next delivery.
FinishDelivery ==
    /\ pc = "done"
    /\ pc' = "idle"
    /\ FreshLocals
    /\ response' = Unset
    /\ trace' = <<>>
    /\ UNCHANGED <<deliveries, request, renders, outbox>>

NextRedelivery ==
    \/ \E r \in RedeliveredRequests : Deliver(r)
    \/ Verify
    \/ ExtractFields
    \/ \E outcome \in LookupOutcomes : Lookup(outcome)
    \/ CheckEmail
    \/ SendEmail
    \/ \E outcome \in SmtpOutcomes : Smtp(outcome)
    \/ FinishDelivery

SpecRedelivery == Init /\ [][NextRedelivery]_vars

\* C11: nothing is deduplicated and no call depends on an earlier one: once
\* n deliveries of the same valid completed event have been handled, n
\* messages have been built and handed to the mail server, each with the
\* subject that embeds the event's payment id.
C11_EveryDeliveryRendersAndSends ==
    /\ (pc = "idle" /\ request \in RedeliveredRequests) => renders = deliveries
    /\ (msg # Unset /\ request \in RedeliveredRequests)
          => msg.subject = <<"New Payment Notification - ", request.payload.object.payment_intent.v>>


\* C12: the acknowledgment does not wait for the payment-method lookup or
\* for the mail: whenever the handler is about to call
\* PaymentIntent.retrieve, has called it, or is about to open the SMTP
\* session, the response to the processor has already been decided.
C12_AcknowledgedBeforeLookupAndMail ==
    ( \/ pc = "resolve" /\ ShouldLookup(payment_intent_id)
      \/ Called("retrieve") > 0
      \/ pc = "smtp" )
    => response # Unset

====
